---- MODULE Spec2Model ----
(***************************************************************************)
(* Model of pcfg/src/parser.py: the grammar-constrained depth-first        *)
(* command enumerator (Cell, Parser.make_phrase_table, Parser.local_score, *)
(* Parser.final_score, Parser.parse, Parser.dfs).                          *)
(*                                                                         *)
(* The Enumerator base class (grammar.py) is not among the sources; it is  *)
(* modelled from the specification as a cursor over a derivation stack     *)
(* with push / pop / legal_tokens / allows / allow_eof.                    *)
(*                                                                         *)
(* Scores are floats in the source; they are modelled as integers.         *)
(* sent.split() is modelled by its result, the list of words.              *)
(***************************************************************************)
EXTENDS Integers, Sequences, FiniteSets, TLC

VARIABLES
    pc,                     \* position of the program
    grammar,                \* Enumerator.grammar
    stack,                  \* Enumerator derivation stack (pushed tokens)
    min_command_length,     \* Parser.min_command_length
    max_command_length,     \* Parser.max_command_length
    redundant_word_score,   \* Parser.redundant_word_score
    P2TScores,              \* Parser.P2TScores
    T2PScores,              \* Parser.T2PScores
    lines,                  \* make_phrase_table: lines of the file still to read
    file,                   \* history: the file make_phrase_table was given
    words,                  \* parse: words
    top_K,                  \* parse: top_K
    cells,                  \* heap of Cell objects, a Cell is its index
    built,                  \* history: every Cell as its constructor left it
    frames,                 \* call stack of dfs invocations
    final_cells,            \* parse: final_cells
    rank_i,                 \* parse: position of the ranking loop
    output,                 \* parse: the rows printed
    pushes,                 \* history: number of push() calls
    pops                    \* history: number of pop() calls

vars == <<pc, grammar, stack, min_command_length, max_command_length,
          redundant_word_score, P2TScores, T2PScores, lines, file, words,
          top_K, cells, built, frames, final_cells, rank_i, output, pushes, pops>>

----------------------------------------------------------------------------
(* Bounds *)

MaxCl == 3
MaxTopK == 2

----------------------------------------------------------------------------
(* Tokens *)

START == "__START_SYMBOL__"
EOF == "<EOF>"
HOLE == "<HOLE>"
PIPE == "|"

Tokens == {"cp", "find", HOLE, PIPE, EOF}
Contexts == Tokens \cup {"ROOT"}

\* P2TScores / T2PScores before make_phrase_table
None == "None"
EmptyMap == [x \in {} |-> 0]

Range(s) == {s[i] : i \in 1..Len(s)}
Min(a, b) == IF a < b THEN a ELSE b
Max(a, b) == IF a > b THEN a ELSE b

RECURSIVE SumOver(_, _)
SumOver(f, S) ==
    IF S = {} THEN 0
    ELSE LET x == CHOOSE y \in S : TRUE IN f[x] + SumOver(f, S \ {x})

SumValues(f) == SumOver(f, DOMAIN f)

----------------------------------------------------------------------------
(* Token Enumerator: the grammars explored, and the cursor API *)

Ctx(stk) == IF stk = <<>> THEN "ROOT" ELSE stk[Len(stk)]

G_cp ==
    [legal  |-> [c \in Contexts |->
                    CASE c = "ROOT" -> <<"cp">>
                      [] c = "cp"   -> <<EOF>>
                      [] OTHER      -> <<>>],
     eof    |-> {"cp"},
     reject |-> {}]

G_find ==
    [legal  |-> [c \in Contexts |->
                    CASE c = "ROOT" -> <<"find", "cp">>
                      [] c = "find" -> <<HOLE, PIPE, EOF, "cp">>
                      [] c = "cp"   -> <<HOLE>>
                      [] c = HOLE   -> <<HOLE, EOF>>
                      [] OTHER      -> <<>>],
     eof    |-> {"find", HOLE},
     reject |-> {}]

G_root ==
    [legal  |-> [c \in Contexts |->
                    CASE c = "ROOT" -> <<"cp">>
                      [] c = "cp"   -> <<"cp", EOF>>
                      [] OTHER      -> <<>>],
     eof    |-> {"ROOT", "cp"},
     reject |-> {}]

G_empty ==
    [legal  |-> [c \in Contexts |-> <<>>],
     eof    |-> {},
     reject |-> {}]

G_broken ==
    [legal  |-> [c \in Contexts |->
                    CASE c = "ROOT" -> <<"cp", "find">>
                      [] c = "cp"   -> <<EOF>>
                      [] c = "find" -> <<HOLE, "cp">>
                      [] OTHER      -> <<>>],
     eof    |-> {"cp", HOLE},
     reject |-> {<<"find", HOLE>>}]

Grammars == {G_cp, G_find, G_root, G_empty, G_broken}

legal_tokens(g, stk) == g.legal[Ctx(stk)]

allows(g, stk, t) ==
    /\ t \in Range(legal_tokens(g, stk))
    /\ <<Ctx(stk), t>> \notin g.reject

allow_eof(g, stk) == Ctx(stk) \in g.eof

push(stk, t) == Append(stk, t)

pop(stk) == SubSeq(stk, 1, Len(stk) - 1)

----------------------------------------------------------------------------
(* Phrase-table files: a line is the list of its "|||"-separated parts,    *)
(* the third part the list of its whitespace-separated score fields.       *)

Num(v) == [float |-> v]
Bad == [text |-> "x"]
Scores(a, b, c, d) == <<Num(a), Num(b), Num(c), Num(d)>>

File_empty == <<>>

File_phrase == << <<"copy file", "cp", Scores(1, 2, 9, 3)>> >>

File_words ==
    << <<"copy", "cp", Scores(1, 2, 3, 4)>>,
       <<"file", "cp", Scores(1, 1, 2, 1)>>,
       <<"find", "find", Scores(2, 2, 5, 2)>>,
       <<"file", HOLE, Scores(0, 0, 1, 0)>>,
       <<"copy", "cp", Scores(0, 0, 4, 0)>> >>

File_bad ==
    << <<"copy", "cp", Scores(1, 2, 3, 4)>>,
       <<"file", "cp">> >>

\* a line with a fourth "|||"-separated part
File_extra ==
    << <<"find", "find", Scores(2, 2, 5, 2), "junk">>,
       <<"file", "cp", Scores(1, 1, 2, 1)>> >>

Files == {File_empty, File_phrase, File_words, File_bad, File_extra}

Sentences ==
    {<<>>, <<"copy", "file">>, <<"copy", "copy", "dir">>, <<"find", "file">>}

Weights == {0, -1}
MinCls == -1 .. 1
MaxCls == 0 .. MaxCl
TopKs == -1 .. MaxTopK

\* parts[0], parts[1], parts[2] exist and parts[2] unpacks into four floats
LineParses(line) ==
    /\ Len(line) >= 3
    /\ Len(line[3]) = 4
    /\ \A i \in 1..4 : "float" \in DOMAIN line[3][i]

\* tbl[a][b] = v on a defaultdict(dict)
Put(tbl, a, b, v) ==
    LET old == IF a \in DOMAIN tbl THEN tbl[a] ELSE EmptyMap
        new == [j \in DOMAIN old \cup {b} |-> IF j = b THEN v ELSE old[j]]
    IN [k \in DOMAIN tbl \cup {a} |-> IF k = a THEN new ELSE tbl[k]]

\* variant: the third unpacked name, phi_nl_cmd, is kept
KeptScore_third(line) == line[3][3].float

\* the weight make_phrase_table keeps: lex_nl_cmd, the fourth unpacked name
KeptScore(line) == line[3][4].float

----------------------------------------------------------------------------
(* Cell *)

\* Cell.__init__(t, p, bp, ff); bp = 0 stands for None
CellInit(t, bp, ff) ==
    [term          |-> t,
     backpointer   |-> bp,
     length        |-> IF bp # 0 THEN cells[bp].length + 1 ELSE 0,
     score         |-> IF bp # 0 THEN cells[bp].score + SumValues(ff) ELSE 0,
     covered_words |-> DOMAIN ff,
     features      |-> [k \in {<<w, t>> : w \in DOMAIN ff} |-> ff[k[1]]]]

RECURSIVE cnl_words(_, _)
cnl_words(heap, c) ==
    IF c = 0 THEN {}
    ELSE heap[c].covered_words \cup cnl_words(heap, heap[c].backpointer)

\* variant: the walk accumulates into self.covered_words itself
cnl_words_heap_shared(heap, c) ==
    [heap EXCEPT ![c].covered_words = cnl_words(heap, c)]

\* the Cells after a call of cnl_words(): line 58 deep-copies the set and
\* lines 60-62 accumulate into the copy
cnl_words_heap(heap, c) == heap

\* the terms of the chain from the start Cell to c, root first
RECURSIVE ChainTerms(_, _)
ChainTerms(heap, c) ==
    IF c = 0 THEN <<>>
    ELSE Append(ChainTerms(heap, heap[c].backpointer), heap[c].term)

Star(t) == IF t = HOLE THEN "*" ELSE t

RECURSIVE Join(_)
Join(s) ==
    IF s = <<>> THEN ""
    ELSE IF Len(s) = 1 THEN s[1]
    ELSE s[1] \o " " \o Join(Tail(s))

\* variant: the start Cell's term is not dropped from the list
CommandTokens_keepStart(heap, c) ==
    LET chain == ChainTerms(heap, c)
    IN [i \in 1..Len(chain) |-> Star(chain[i])]

\* the list genCommand builds, after command[1:]
CommandTokens(heap, c) ==
    LET chain == ChainTerms(heap, c)
    IN Tail([i \in 1..Len(chain) |-> Star(chain[i])])

genCommand(heap, c) == Join(CommandTokens(heap, c))

----------------------------------------------------------------------------
(* Parser *)

local_score(term, ws) ==
    IF term \notin DOMAIN T2PScores THEN EmptyMap
    ELSE [w \in {x \in Range(ws) : x \in DOMAIN T2PScores[term]} |->
            T2PScores[term][w]]

\* variant: T2PScores[term] is subscripted without the test of line 121, and
\* the defaultdict creates the missing key
local_score_table_subscript(term) ==
    IF term \in DOMAIN T2PScores THEN T2PScores
    ELSE [k \in DOMAIN T2PScores \cup {term} |->
            IF k = term THEN EmptyMap ELSE T2PScores[k]]

\* T2PScores after local_score(term, words): the defaultdict is subscripted
\* (lines 126, 130) only once `term in self.T2PScores` held (line 121)
local_score_table(term) == T2PScores

\* variant: the uncovered words are counted with their repetitions
final_score_repeats(heap, c, ws) ==
    heap[c].score
        + redundant_word_score
            * Cardinality({i \in 1..Len(ws) : ws[i] \notin cnl_words(heap, c)})

\* the value final_score leaves in cell.score
final_score(heap, c, ws) ==
    heap[c].score
        + redundant_word_score * Cardinality(Range(ws) \ cnl_words(heap, c))

\* sorted(..., key=score, reverse=True): stable, highest score first
RECURSIVE InsertByScore(_, _, _)
InsertByScore(heap, c, s) ==
    IF s = <<>> THEN <<c>>
    ELSE IF heap[s[1]].score >= heap[c].score
         THEN <<s[1]>> \o InsertByScore(heap, c, Tail(s))
         ELSE <<c>> \o s

RECURSIVE SortedByScore(_, _)
SortedByScore(heap, s) ==
    IF s = <<>> THEN <<>>
    ELSE InsertByScore(heap, s[Len(s)],
                       SortedByScore(heap, SubSeq(s, 1, Len(s) - 1)))

\* s[:k]
Slice(s, k) ==
    IF k >= 0 THEN SubSeq(s, 1, Min(k, Len(s)))
    ELSE SubSeq(s, 1, Max(0, Len(s) + k))

----------------------------------------------------------------------------
(* dfs: the decisions of one invocation *)

\* variant: the pipe token is not skipped
IsSkipped_eofOnly(term) == term = EOF

\* lines 169-174: the terms dfs returns on at once
IsSkipped(term) == term = EOF \/ term = PIPE

\* variant: a Cell of exactly the minimum length is recorded
ShouldRecord_atMin(c) ==
    /\ cells[c].length >= min_command_length
    /\ allow_eof(grammar, stack)

\* line 177
ShouldRecord(c) ==
    /\ cells[c].length > min_command_length
    /\ allow_eof(grammar, stack)

\* variant: the branch is cut one token late
MaxDepthReached_late(c) == cells[c].length = max_command_length + 1

\* variant: the branch is cut one token early
MaxDepthReached_early(c) == cells[c].length + 1 >= max_command_length

\* line 181
MaxDepthReached(c) == cells[c].length = max_command_length

\* variant: no pop when the loop ended on the end-of-input sentinel
PopsOnLeave_notEof(term) == term # START /\ term # EOF

\* variant: the test of line 201 inverted
PopsOnLeave_inverted(term) == term = START

\* line 201, on the value the local variable term holds after the loop
PopsOnLeave(term) == term # START

Top == frames[Len(frames)]

Frame(c, t) == [cell |-> c, term |-> t, at |-> "entry", todo |-> <<>>]

Recorded(c) == IF ShouldRecord(c) THEN Append(final_cells, c) ELSE final_cells

\* the position parse is at once the dfs call stack is fs
AfterFrames(fs) == IF fs = <<>> THEN "rank" ELSE "dfs"

Leave == SubSeq(frames, 1, Len(frames) - 1)

----------------------------------------------------------------------------
(* Initial state: a constructed Parser *)

Init ==
    /\ pc = "new"
    /\ grammar \in Grammars
    /\ stack = <<>>
    /\ min_command_length \in MinCls
    /\ max_command_length \in MaxCls
    /\ redundant_word_score \in Weights
    /\ P2TScores = None
    /\ T2PScores = None
    /\ lines = <<>>
    /\ file = <<>>
    /\ words = <<>>
    /\ top_K = 0
    /\ cells = <<>>
    /\ built = <<>>
    /\ frames = <<>>
    /\ final_cells = <<>>
    /\ rank_i = 0
    /\ output = <<>>
    /\ pushes = 0
    /\ pops = 0

----------------------------------------------------------------------------
(* make_phrase_table *)

OpenPhraseTable ==
    /\ pc = "new"
    /\ \E f \in Files : lines' = f /\ file' = f
    /\ P2TScores' = EmptyMap
    /\ T2PScores' = EmptyMap
    /\ pc' = "loading"
    /\ UNCHANGED <<grammar, stack, min_command_length, max_command_length,
                   redundant_word_score, words, top_K, cells, built, frames,
                   final_cells, rank_i, output, pushes, pops>>

ReadLine ==
    /\ pc = "loading"
    /\ lines # <<>>
    /\ LineParses(Head(lines))
    /\ LET line == Head(lines)
       IN /\ P2TScores' = Put(P2TScores, line[1], line[2], KeptScore(line))
          /\ T2PScores' = Put(T2PScores, line[2], line[1], KeptScore(line))
    /\ lines' = Tail(lines)
    /\ UNCHANGED <<pc, grammar, file, stack, min_command_length, max_command_length,
                   redundant_word_score, words, top_K, cells, built, frames,
                   final_cells, rank_i, output, pushes, pops>>

\* IndexError / ValueError leaves make_phrase_table
ReadLineFails ==
    /\ pc = "loading"
    /\ lines # <<>>
    /\ ~LineParses(Head(lines))
    /\ pc' = "load_failed"
    /\ UNCHANGED <<grammar, file, stack, min_command_length, max_command_length,
                   redundant_word_score, P2TScores, T2PScores, lines, words,
                   top_K, cells, built, frames, final_cells, rank_i, output,
                   pushes, pops>>

PhraseTableLoaded ==
    /\ pc = "loading"
    /\ lines = <<>>
    /\ pc' = "ready"
    /\ UNCHANGED <<grammar, file, stack, min_command_length, max_command_length,
                   redundant_word_score, P2TScores, T2PScores, lines, words,
                   top_K, cells, built, frames, final_cells, rank_i, output,
                   pushes, pops>>

----------------------------------------------------------------------------
(* parse: lines 139-150, up to the call of dfs on the start Cell *)

Parse ==
    /\ pc = "ready"
    /\ \E sent \in Sentences : words' = sent
    /\ \E k \in TopKs : top_K' = k
    /\ LET start_cell == CellInit(START, 0, EmptyMap)
       IN /\ cells' = <<start_cell>>
          /\ built' = <<start_cell>>
    /\ final_cells' = <<>>
    /\ frames' = <<Frame(1, START)>>
    /\ pc' = "dfs"
    /\ UNCHANGED <<grammar, file, stack, min_command_length, max_command_length,
                   redundant_word_score, P2TScores, T2PScores, lines, rank_i,
                   output, pushes, pops>>

----------------------------------------------------------------------------
(* dfs *)

\* lines 169-174
DfsSkip ==
    /\ pc = "dfs"
    /\ Top.at = "entry"
    /\ IsSkipped(Top.term)
    /\ frames' = Leave
    /\ pc' = AfterFrames(Leave)
    /\ UNCHANGED <<grammar, file, stack, min_command_length, max_command_length,
                   redundant_word_score, P2TScores, T2PScores, lines, words,
                   top_K, cells, built, final_cells, rank_i, output, pushes,
                   pops>>

\* lines 177-182
DfsMaxDepth ==
    /\ pc = "dfs"
    /\ Top.at = "entry"
    /\ ~IsSkipped(Top.term)
    /\ final_cells' = Recorded(Top.cell)
    /\ MaxDepthReached(Top.cell)
    /\ frames' = Leave
    /\ pc' = AfterFrames(Leave)
    /\ UNCHANGED <<grammar, file, stack, min_command_length, max_command_length,
                   redundant_word_score, P2TScores, T2PScores, lines, words,
                   top_K, cells, built, rank_i, output, pushes, pops>>

\* lines 177-196: record, push the term, evaluate legal_tokens() for the loop
DfsExpand ==
    /\ pc = "dfs"
    /\ Top.at = "entry"
    /\ ~IsSkipped(Top.term)
    /\ final_cells' = Recorded(Top.cell)
    /\ ~MaxDepthReached(Top.cell)
    /\ Top.term # START => allows(grammar, stack, Top.term)
    /\ LET pushed == IF Top.term # START THEN push(stack, Top.term) ELSE stack
       IN /\ stack' = pushed
          /\ frames' = [frames EXCEPT ![Len(frames)] =
                            [@ EXCEPT !.at = "loop",
                                      !.todo = legal_tokens(grammar, pushed)]]
    /\ pushes' = IF Top.term # START THEN pushes + 1 ELSE pushes
    /\ UNCHANGED <<pc, grammar, file, min_command_length, max_command_length,
                   redundant_word_score, P2TScores, T2PScores, lines, words,
                   top_K, cells, built, rank_i, output, pops>>

\* variant: the rejected term is dropped and the traversal goes on
DfsAbort_silent ==
    /\ pc = "dfs"
    /\ Top.at = "entry"
    /\ ~IsSkipped(Top.term)
    /\ final_cells' = Recorded(Top.cell)
    /\ ~MaxDepthReached(Top.cell)
    /\ Top.term # START
    /\ ~allows(grammar, stack, Top.term)
    /\ frames' = Leave
    /\ pc' = AfterFrames(Leave)
    /\ UNCHANGED <<grammar, file, stack, min_command_length, max_command_length,
                   redundant_word_score, P2TScores, T2PScores, lines, words,
                   top_K, cells, built, rank_i, output, pushes, pops>>

\* lines 177-192: record, then sys.exit(1)
DfsAbort ==
    /\ pc = "dfs"
    /\ Top.at = "entry"
    /\ ~IsSkipped(Top.term)
    /\ final_cells' = Recorded(Top.cell)
    /\ ~MaxDepthReached(Top.cell)
    /\ Top.term # START
    /\ ~allows(grammar, stack, Top.term)
    /\ pc' = "exit1"
    /\ UNCHANGED <<grammar, file, stack, min_command_length, max_command_length,
                   redundant_word_score, P2TScores, T2PScores, lines, words,
                   top_K, cells, built, frames, rank_i, output, pushes, pops>>

\* lines 196-199: one iteration of the loop, which rebinds term
DfsChild ==
    /\ pc = "dfs"
    /\ Top.at = "loop"
    /\ Top.todo # <<>>
    /\ LET term == Head(Top.todo)
           fired_features == local_score(term, words)
           child_cell == CellInit(term, Top.cell, fired_features)
           child == Len(cells) + 1
       IN /\ T2PScores' = local_score_table(term)
          /\ cells' = Append(cells, child_cell)
          /\ built' = Append(built, child_cell)
          /\ frames' = Append([frames EXCEPT ![Len(frames)] =
                                  [@ EXCEPT !.term = term,
                                            !.todo = Tail(Top.todo)]],
                              Frame(child, term))
    /\ UNCHANGED <<pc, grammar, file, stack, min_command_length, max_command_length,
                   redundant_word_score, P2TScores, lines, words,
                   top_K, final_cells, rank_i, output, pushes, pops>>

\* lines 201-203, the pop (if any) finding a pushed token to remove
DfsReturn ==
    /\ pc = "dfs"
    /\ Top.at = "loop"
    /\ Top.todo = <<>>
    /\ PopsOnLeave(Top.term) => stack # <<>>
    /\ stack' = IF PopsOnLeave(Top.term) THEN pop(stack) ELSE stack
    /\ pops' = IF PopsOnLeave(Top.term) THEN pops + 1 ELSE pops
    /\ frames' = Leave
    /\ pc' = AfterFrames(Leave)
    /\ UNCHANGED <<grammar, file, min_command_length, max_command_length,
                   redundant_word_score, P2TScores, T2PScores, lines, words,
                   top_K, cells, built, final_cells, rank_i, output, pushes>>

\* lines 201-203, pop() called with nothing pushed: what the Enumerator does
\* then is not specified; it either leaves its stack empty or raises
DfsPopEmpty ==
    /\ pc = "dfs"
    /\ Top.at = "loop"
    /\ Top.todo = <<>>
    /\ PopsOnLeave(Top.term)
    /\ stack = <<>>
    /\ pops' = pops + 1
    /\ \/ /\ frames' = Leave
          /\ pc' = AfterFrames(Leave)
       \/ /\ frames' = frames
          /\ pc' = "crashed"
    /\ UNCHANGED <<grammar, file, stack, min_command_length, max_command_length,
                   redundant_word_score, P2TScores, T2PScores, lines, words,
                   top_K, cells, built, final_cells, rank_i, output, pushes>>

----------------------------------------------------------------------------
(* parse: lines 155-162, the ranking pass *)

\* lines 156-157: one iteration
FinalScore ==
    /\ pc = "rank"
    /\ rank_i < Len(final_cells)
    /\ LET c == final_cells[rank_i + 1]
       IN cells' = [cnl_words_heap(cells, c) EXCEPT
                       ![c].score = final_score(cells, c, words)]
    /\ rank_i' = rank_i + 1
    /\ UNCHANGED <<pc, grammar, file, stack, min_command_length, max_command_length,
                   redundant_word_score, P2TScores, T2PScores, lines, words,
                   top_K, built, frames, final_cells, output, pushes, pops>>

Row(c) ==
    [cell      |-> c,
     command   |-> genCommand(cells, c),
     score     |-> cells[c].score,
     length    |-> cells[c].length,
     cnl_words |-> cnl_words(cells, c),
     uncovered |-> Range(words) \ cnl_words(cells, c)]

\* variant: the recorded Cells are cut to top_K without sorting
Ranked_unsorted(fc, k) == Slice(fc, k)

Ranked(fc, k) == Slice(SortedByScore(cells, fc), k)

\* the Cells after the rows of top are printed: two calls of cnl_words() each
RECURSIVE AfterRows(_, _)
AfterRows(heap, top) ==
    IF top = <<>> THEN heap
    ELSE AfterRows(cnl_words_heap(cnl_words_heap(heap, top[1]), top[1]),
                   Tail(top))

\* lines 159-162
Emit ==
    /\ pc = "rank"
    /\ rank_i = Len(final_cells)
    /\ LET top == Ranked(final_cells, top_K)
       IN /\ output' = [i \in 1..Len(top) |-> Row(top[i])]
          /\ cells' = AfterRows(cells, top)
    /\ pc' = "done"
    /\ UNCHANGED <<grammar, file, stack, min_command_length, max_command_length,
                   redundant_word_score, P2TScores, T2PScores, lines, words,
                   top_K, built, frames, final_cells, rank_i, pushes,
                   pops>>

----------------------------------------------------------------------------

Next ==
    \/ OpenPhraseTable
    \/ ReadLine
    \/ ReadLineFails
    \/ PhraseTableLoaded
    \/ Parse
    \/ DfsSkip
    \/ DfsMaxDepth
    \/ DfsExpand
    \/ DfsAbort
    \/ DfsChild
    \/ DfsReturn
    \/ DfsPopEmpty
    \/ FinalScore
    \/ Emit

Spec == Init /\ [][Next]_vars

----------------------------------------------------------------------------
(* Vocabulary of the properties *)

\* dfs on the start Cell has returned, or was left by the unmatched pop
TraversalOver == pc \in {"rank", "done", "crashed"}

\* the tokens of Cell c, the start sentinel left out
CellTokens(c) == Tail(ChainTerms(cells, c))

IsRecorded(c) == c \in Range(final_cells)

Children(c) == {d \in 1..Len(cells) : cells[d].backpointer = c}

EndMarkers == {EOF, PIPE}

\* the token sequences the grammar permits up to the length bound: every
\* token legal after the ones before it, none but the last an end marker
LegalSequences ==
    {s \in UNION {[1..n -> Tokens] : n \in 1..max_command_length} :
        /\ \A i \in 1..Len(s) :
              s[i] \in Range(legal_tokens(grammar, SubSeq(s, 1, i - 1)))
        /\ \A i \in 1..(Len(s) - 1) : s[i] \notin EndMarkers}

----------------------------------------------------------------------------
\* C1: once the traversal is over, the Cells built are the start Cell and
\* exactly one Cell for every legal token sequence of length 1 ..
\* max_command_length; in particular the extensions of a recorded Cell are
\* all there.
C1_ExhaustiveEnumeration ==
    TraversalOver =>
        /\ cells[1].term = START
        /\ {CellTokens(c) : c \in 2..Len(cells)} = LegalSequences
        /\ \A c, d \in 2..Len(cells) :
              CellTokens(c) = CellTokens(d) => c = d

C1_Witness ==
    /\ pc = "done"
    /\ Len(cells) >= 6
    /\ \E c \in Range(final_cells) : Children(c) # {}

\* C2 (as claimed): once the traversal is over, a Cell that is not an end
\* marker and is longer than the minimum is recorded exactly when the grammar
\* permits termination after the Cell's full token sequence, its own term
\* included.
C2_RecordedIffTerminable ==
    TraversalOver =>
        \A c \in 1..Len(cells) :
            /\ IsRecorded(c) => allow_eof(grammar, CellTokens(c))
            /\ (/\ cells[c].term \notin EndMarkers
                /\ cells[c].length > min_command_length
                /\ allow_eof(grammar, CellTokens(c))) => IsRecorded(c)

C4_StackMirrorsChain ==
    pc = "dfs" =>
        /\ Top.at = "loop" => stack = CellTokens(Top.cell)
        /\ Top.at = "entry" =>
              stack = IF Top.cell = 1 THEN <<>>
                      ELSE CellTokens(cells[Top.cell].backpointer)

C4_Witness ==
    /\ pc = "dfs"
    /\ Top.at = "loop"
    /\ Len(stack) >= 2
    /\ Children(Top.cell) # {}
    /\ Top.todo # <<>>

\* C5 (as claimed): over a whole traversal the number of pops equals the
\* number of pushes, the invocation on the start Cell contributing neither.
C5_PopsEqualPushes ==
    TraversalOver => pops = pushes /\ stack = <<>>

\* C6: a push is only ever of a term the Enumerator allows in the state it
\* is pushed in; when allows(term) is false for a Cell about to be expanded
\* the step taken is the exit, which pushes, pops, builds and prints
\* nothing, and after the exit nothing changes any more.
C6_IllegalPushAborts ==
    [][/\ pushes' > pushes =>
            /\ allows(grammar, stack, Top.term)
            /\ stack' = Append(stack, Top.term)
       /\ (/\ pc = "dfs"
           /\ Top.at = "entry"
           /\ Top.term \notin EndMarkers \cup {START}
           /\ cells[Top.cell].length # max_command_length
           /\ ~allows(grammar, stack, Top.term)) =>
            /\ pc' = "exit1"
            /\ UNCHANGED <<stack, pushes, pops, cells, output>>
       /\ pc = "exit1" => UNCHANGED vars]_vars

C6_Witness ==
    /\ pc = "exit1"
    /\ pushes > 0
    /\ ~allows(grammar, stack, Top.term)

\* C7: a Cell whose term is the end-of-input sentinel or the pipe token is
\* never recorded, never pushed and never has a child; no recorded Cell's
\* command contains either token.
C7_EndMarkersAreDeadEnds ==
    /\ \A c \in 1..Len(cells) :
          cells[c].term \in EndMarkers =>
              ~IsRecorded(c) /\ Children(c) = {}
    /\ \A i \in 1..Len(stack) : stack[i] \notin EndMarkers
    /\ \A c \in Range(final_cells) :
          Range(CommandTokens(cells, c)) \cap EndMarkers = {}

C7_Witness ==
    /\ pc = "done"
    /\ final_cells # <<>>
    /\ \E c \in 1..Len(cells) : cells[c].term = EOF
    /\ \E c \in 1..Len(cells) :
          cells[c].term = PIPE /\ allow_eof(grammar, CellTokens(cells[c].backpointer))
                               /\ cells[c].length > min_command_length
                               /\ cells[c].length < max_command_length

\* C8: for top_K >= 0 the rows printed are min(top_K, number of recorded
\* Cells) distinct recorded Cells, in non-increasing order of final score,
\* and no recorded Cell left out scores strictly higher than a printed one.
C8_RankedOutput ==
    (pc = "done" /\ top_K >= 0) =>
        /\ Len(output) = Min(top_K, Len(final_cells))
        /\ \A i \in 1..Len(output) :
              /\ IsRecorded(output[i].cell)
              /\ output[i].score = cells[output[i].cell].score
        /\ \A i, j \in 1..Len(output) :
              /\ i < j => output[i].score >= output[j].score
              /\ i # j => output[i].cell # output[j].cell
        /\ \A c \in Range(final_cells) \ {output[i].cell : i \in 1..Len(output)} :
              \A i \in 1..Len(output) : cells[c].score <= output[i].score

C8_Witness ==
    /\ pc = "done"
    /\ top_K = 2
    /\ Len(final_cells) > 2
    /\ Len(output) = 2
    /\ output[1].score > output[2].score
    /\ output[1].cell > output[2].cell

\* C9: in the ranking pass every recorded Cell is penalised exactly once:
\* the Cells the loop has passed hold their construction-time score plus
\* redundant_word_score times the number of distinct input words that no
\* Cell of their chain covers, the others still hold their construction-time
\* score.
RECURSIVE ChainOf(_)
ChainOf(c) == IF c = 0 THEN {} ELSE {c} \cup ChainOf(built[c].backpointer)

Uncovered(c) ==
    {w \in Range(words) : \A a \in ChainOf(c) : w \notin built[a].covered_words}

C9_PenaltyAppliedOnce ==
    pc \in {"rank", "done"} =>
        \A k \in 1..Len(final_cells) :
            LET c == final_cells[k]
            IN cells[c].score =
                  IF k <= rank_i
                  THEN built[c].score
                         + redundant_word_score * Cardinality(Uncovered(c))
                  ELSE built[c].score

C9_Witness ==
    /\ pc = "done"
    /\ redundant_word_score # 0
    /\ Len(words) > Cardinality(Range(words))
    /\ \E c \in Range(final_cells) :
          /\ cells[c].score # built[c].score
          /\ cnl_words(cells, c) # {}

\* C10 (as claimed): every Cell's score is its backpointer's score plus the
\* sum of its own local feature weights and its length its backpointer's
\* plus one; the start Cell has score 0 and length 0.
C10_ScoreAdditivity ==
    \A c \in 1..Len(cells) :
        IF cells[c].backpointer = 0
        THEN cells[c].score = 0 /\ cells[c].length = 0
        ELSE /\ cells[c].score = cells[cells[c].backpointer].score
                                   + SumValues(cells[c].features)
             /\ cells[c].length = cells[cells[c].backpointer].length + 1

\* the Cell of c's chain that is i tokens after the start Cell
AncestorAt(c, i) == CHOOSE a \in ChainOf(c) : cells[a].length = i

RECURSIVE SpaceJoined(_)
SpaceJoined(s) ==
    IF s = <<>> THEN ""
    ELSE IF Len(s) = 1 THEN s[1]
    ELSE SpaceJoined(SubSeq(s, 1, Len(s) - 1)) \o " " \o s[Len(s)]

\* C11: genCommand() on a Cell of length N is the single-space join of
\* exactly N tokens, the i-th being the term of the i-th Cell after the start
\* Cell, "*" in place of the hole symbol; the start sentinel is not among
\* them.
C11_GenCommand ==
    \A c \in 1..Len(cells) :
        LET toks == CommandTokens(cells, c)
            N == cells[c].length
        IN /\ Len(toks) = N
           /\ \A i \in 1..N :
                 LET t == cells[AncestorAt(c, i)].term
                 IN /\ toks[i] = IF t = HOLE THEN "*" ELSE t
                    /\ toks[i] # START
           /\ genCommand(cells, c) = SpaceJoined(toks)

C11_Witness ==
    /\ pc = "done"
    /\ genCommand(cells, 1) = ""
    /\ \E c \in 1..Len(cells) : genCommand(cells, c) = "find cp *"
    /\ \E i \in 1..Len(output) : output[i].command = "find * *"

\* C12: cnl_words() of a Cell is cnl_words() of its backpointer together
\* with the Cell's own covered_words, hence a superset of it; it is the union
\* of the covered_words along the chain; and no call of cnl_words() changes
\* the covered_words of any Cell.
C12_CnlWordsMonotone ==
    \A c \in 1..Len(cells) :
        /\ cells[c].covered_words = built[c].covered_words
        /\ cnl_words(cells, c) =
              UNION {built[a].covered_words : a \in ChainOf(c)}
        /\ cells[c].backpointer # 0 =>
              /\ cnl_words(cells, cells[c].backpointer) \subseteq cnl_words(cells, c)
              /\ cnl_words(cells, c) =
                    cnl_words(cells, cells[c].backpointer)
                        \cup cells[c].covered_words

C12_Witness ==
    /\ pc = "done"
    /\ \E i \in 1..Len(output) :
          LET c == output[i].cell
              b == cells[c].backpointer
          IN /\ b # 0
             /\ cnl_words(cells, b) # {}
             /\ cnl_words(cells, b) # cnl_words(cells, c)
             /\ cells[c].covered_words # cnl_words(cells, c)

\* C13 (as claimed): with the phrase table ("copy file" -> "cp"), the
\* grammar whose only command is cp, the sentence "copy file", minimum
\* length 0 and maximum length 1, parse prints exactly one row: command "cp",
\* length 1, score 0, no aligned words.
C13_CopyFileExample ==
    (/\ pc = "done"
     /\ grammar = G_cp
     /\ file = File_phrase
     /\ words = <<"copy", "file">>
     /\ min_command_length = 0
     /\ max_command_length = 1
     /\ redundant_word_score = 0
     /\ top_K >= 1) =>
        /\ Len(output) = 1
        /\ output[1].command = "cp"
        /\ output[1].length = 1
        /\ output[1].score = 0
        /\ output[1].cnl_words = {}

\* the lines make_phrase_table has stored so far
LinesRead == SubSeq(file, 1, Len(file) - Len(lines))

PairsOf(tbl) == UNION {{<<a, b>> : b \in DOMAIN tbl[a]} : a \in DOMAIN tbl}

\* both tables hold exactly the (phrase, snippet) pairs of the lines read,
\* each with the k-th score of the last line read for that pair
TablesHoldScore(k) ==
    LET recs == {<<LinesRead[i][1], LinesRead[i][2]>> : i \in 1..Len(LinesRead)}
        last(a, b) ==
            CHOOSE i \in 1..Len(LinesRead) :
                /\ LinesRead[i][1] = a /\ LinesRead[i][2] = b
                /\ \A j \in (i + 1)..Len(LinesRead) :
                      ~(LinesRead[j][1] = a /\ LinesRead[j][2] = b)
    IN /\ PairsOf(P2TScores) = recs
       /\ PairsOf(T2PScores) = {<<r[2], r[1]>> : r \in recs}
       /\ \A r \in recs :
             /\ P2TScores[r[1]][r[2]] = LinesRead[last(r[1], r[2])][3][k].float
             /\ T2PScores[r[2]][r[1]] = P2TScores[r[1]][r[2]]

\* C14 (as claimed): the weight stored in both directions for a record is
\* the third of its four scores.
C14_ThirdScoreStored == pc # "new" => TablesHoldScore(3)

\* C14 (amended): the weight stored, identically in both directions, is the
\* fourth of the four scores, the last record of a pair winning, and both
\* tables hold exactly the pairs read.
C14_FourthScoreStored == pc # "new" => TablesHoldScore(4)

C14_Witness ==
    /\ pc = "ready"
    /\ \E i, j \in 1..Len(file) :
          /\ i < j
          /\ file[i][1] = file[j][1] /\ file[i][2] = file[j][2]
          /\ file[i][3][4] # file[j][3][4]
          /\ file[j][3][3] # file[j][3][4]
          /\ T2PScores[file[j][2]][file[j][1]] = file[j][3][4].float

\* a line of exactly three parts whose third part is four numbers
ExactShape(line) ==
    /\ Len(line) = 3
    /\ Len(line[3]) = 4
    /\ \A i \in 1..4 : "float" \in DOMAIN line[3][i]

\* C15 (as claimed): make_phrase_table completes only on files whose every
\* line has exactly three parts and four numeric scores, and after a failure
\* the Parser holds no entry of the lines read before the malformed one.
C15_LoadAllOrNothing ==
    /\ pc = "load_failed" =>
          /\ PairsOf(P2TScores) = {}
          /\ PairsOf(T2PScores) = {}
    /\ pc = "ready" => \A i \in 1..Len(file) : ExactShape(file[i])

\* C16: whenever dfs builds a child Cell from local_score(term, words), the
\* fired features are exactly the input words that are keys of
\* T2PScores[term] with the weights stored there, none when term is not in
\* the table, and the lookup leaves both tables as they were.
C16_LocalScoreLookup ==
    [][(pc = "dfs" /\ Len(cells') > Len(cells)) =>
          LET c == Len(cells')
              t == cells'[c].term
              hit == IF t \in DOMAIN T2PScores
                     THEN {w \in Range(words) : w \in DOMAIN T2PScores[t]}
                     ELSE {}
          IN /\ T2PScores' = T2PScores
             /\ P2TScores' = P2TScores
             /\ cells'[c].covered_words = hit
             /\ DOMAIN cells'[c].features = {<<w, t>> : w \in hit}
             /\ \A w \in hit : cells'[c].features[<<w, t>>] = T2PScores[t][w]
      ]_vars

C16_Witness ==
    /\ pc = "done"
    /\ \E c \in 2..Len(cells) :
          /\ cells[c].term \notin DOMAIN T2PScores
          /\ cells[c].features = EmptyMap
    /\ \E c \in 2..Len(cells) :
          /\ cells[c].covered_words # {}
          /\ cells[c].covered_words # Range(words)

\* C17 (as claimed): every Cell keeps the values its constructor gave it.
C17_CellsImmutable ==
    \A c \in 1..Len(cells) : cells[c] = built[c]

\* no Cell is longer than the maximum, the dfs invocations nest at most
\* max_command_length + 1 deep, and a Cell of the maximum length is neither
\* pushed nor expanded
TraversalBounded ==
    /\ \A c \in 1..Len(cells) :
          /\ cells[c].length <= max_command_length
          /\ cells[c].length = max_command_length => Children(c) = {}
    /\ Len(frames) <= max_command_length + 1
    /\ stack = <<>> \/ Len(stack) < max_command_length

\* a natural number every step of the traversal decreases: the Cells still
\* to build weigh four each, an open invocation two, less one once it is in
\* its loop
WorkLeft ==
    4 * (Cardinality(LegalSequences) - (Len(cells) - 1))
        + 2 * Len(frames)
        - (IF Top.at = "loop" THEN 1 ELSE 0)

\* C18: the traversal stays within those bounds at every moment, and it
\* terminates: while it runs a step is always possible, and every step
\* either ends it or strictly decreases a natural number.
C18_TraversalTerminates ==
    /\ []TraversalBounded
    /\ [](pc = "dfs" => WorkLeft >= 0 /\ ENABLED Next)
    /\ [][pc = "dfs" => (pc' # "dfs" \/ WorkLeft' < WorkLeft)]_vars

C18_Witness ==
    /\ pc = "dfs"
    /\ max_command_length >= 2
    /\ Len(frames) = max_command_length + 1
    /\ Len(stack) = max_command_length - 1
    /\ cells[Top.cell].term \notin EndMarkers

\* every token legal_tokens() offers in a state satisfies allows() there
SelfConsistent(g) ==
    \A c \in Contexts :
        LET stk == IF c = "ROOT" THEN <<>> ELSE <<c>>
        IN \A t \in Range(legal_tokens(g, stk)) : allows(g, stk, t)

\* C20: with a self-consistent Enumerator the exit of dfs is never taken:
\* every child Cell is entered with the Enumerator in the state its term was
\* offered in, whatever siblings were explored before, so allows(term) holds
\* there.
C20_ExitUnreachable ==
    SelfConsistent(grammar) =>
        /\ pc # "exit1"
        /\ (pc = "dfs" /\ Top.at = "entry" /\ Top.cell # 1) =>
              /\ stack = CellTokens(cells[Top.cell].backpointer)
              /\ Top.term \in Range(legal_tokens(grammar, stack))
              /\ allows(grammar, stack, Top.term)

C20_Witness ==
    /\ SelfConsistent(grammar)
    /\ pc = "dfs"
    /\ Top.at = "entry"
    /\ Top.term \notin EndMarkers
    /\ cells[Top.cell].length < max_command_length
    /\ \E d \in Children(cells[Top.cell].backpointer) :
          d # Top.cell /\ Children(d) # {} /\ cells[d].length >= 2

====
